---- MODULE Spec2Model ----
\* Faro sharding (src/src/lib.rs): shard_with_hasher(key, total_destinations, hasher)
\* walks a chain of hashes h_0 = hash_one(key), h_n = hash_one(h_{n-1}) and moves the
\* key to shard n on step n exactly when h_n % (n + 1) == 0.
\*
\* The model runs several invocations of shard_with_hasher side by side, one
\* statement group per step, against one deterministic hasher drawn at start-up.
EXTENDS Integers, FiniteSets, Sequences, TLC

\* ---------------------------------------------------------------- bounds

\* Largest total_destinations a caller passes (u64 in the code).
MaxN == 4

\* Hash outputs range over 0..HashMax (u64 in the code).  The only arithmetic the
\* code does is hash % (n + 1) with n < total_destinations <= u64::MAX, so no
\* operation can wrap and the width plays no part.
HashMax == 2

HashVals == 0..HashMax

\* The keys callers pass (impl Hash; opaque, used only through hash_one).
Keys == {"foo"}

\* The invocations that may run concurrently.
Calls == {1, 2}

\* key[c] of an invocation that has not been made yet.
NoKey == ""

VARIABLES
    hashKey,            \* hasher.hash_one on a key:  [Keys -> HashVals]
    hashU64,            \* hasher.hash_one on a u64:  [HashVals -> HashVals]
    pc,                 \* position of each invocation in shard_with_hasher
    key,                \* argument key
    total_destinations, \* argument total_destinations
    final_shard,        \* local final_shard
    last_hash,          \* local last_hash
    n,                  \* loop variable n
    ret,                \* <<v>> once the invocation returned v, << >> otherwise
    hashCalls,          \* number of hash_one calls the invocation has made
    loopIters           \* number of times the invocation ran the loop body

vars == <<hashKey, hashU64, pc, key, total_destinations, final_shard, last_hash,
          n, ret, hashCalls, loopIters>>

hasherVars == <<hashKey, hashU64>>

\* ---------------------------------------------------------------- the code

\* for n in 1..total_destinations: the values n takes (a half-open range).
LoopRangeInclusive(td) == 1..td

LoopRange(td) == 1..(td - 1)

\* if hash % (n + 1) == 0 { final_shard = n; }: final_shard after the statement.
NextShardModulo(hash, step, shard) == hash % (step + 1)

NextShardOffByOne(hash, step, shard) == IF hash % (step + 1) = 0 THEN step + 1 ELSE shard

NextShardNever(hash, step, shard) == shard

NextShard(hash, step, shard) == IF hash % (step + 1) = 0 THEN step ELSE shard

\* The loop of shard_with_hasher run to its end from step `step`, as one
\* sequential computation: the value final_shard holds after the loop.
RECURSIVE RunLoop(_, _, _, _, _)
RunLoop(hu, td, step, shard, last) ==
    IF step \in LoopRange(td)
    THEN LET hash == hu[last]
         IN  RunLoop(hu, td, step + 1, NextShard(hash, step, shard), hash)
    ELSE shard

\* shard_with_hasher run alone and to completion with the hasher (hk, hu):
\* <<v>> when it returns v, << >> when it panics.
shard_with_hasher(k, td, hk, hu) ==
    IF td = 0 THEN << >> ELSE <<RunLoop(hu, td, 1, 0, hk[k])>>

Init ==
    /\ hashKey \in [Keys -> HashVals]
    /\ hashU64 \in [HashVals -> HashVals]
    /\ pc = [c \in Calls |-> "idle"]
    /\ key = [c \in Calls |-> NoKey]
    /\ total_destinations = [c \in Calls |-> 0]
    /\ final_shard = [c \in Calls |-> 0]
    /\ last_hash = [c \in Calls |-> 0]
    /\ n = [c \in Calls |-> 0]
    /\ ret = [c \in Calls |-> << >>]
    /\ hashCalls = [c \in Calls |-> 0]
    /\ loopIters = [c \in Calls |-> 0]

\* A caller invokes shard_with_hasher(k, td, &hasher).
Call(c, k, td) ==
    /\ pc[c] = "idle"
    /\ pc' = [pc EXCEPT ![c] = "hash_key"]
    /\ key' = [key EXCEPT ![c] = k]
    /\ total_destinations' = [total_destinations EXCEPT ![c] = td]
    /\ UNCHANGED <<hasherVars, final_shard, last_hash, n, ret, hashCalls, loopIters>>

\* The same statements with the zero check made before the key is hashed.
HashKeyAfterCheck(c) ==
    /\ pc[c] = "hash_key"
    /\ final_shard' = [final_shard EXCEPT ![c] = 0]
    /\ IF total_destinations[c] = 0
       THEN /\ pc' = [pc EXCEPT ![c] = "panicked"]
            /\ UNCHANGED <<last_hash, hashCalls>>
       ELSE /\ pc' = [pc EXCEPT ![c] = "assert"]
            /\ last_hash' = [last_hash EXCEPT ![c] = hashKey[key[c]]]
            /\ hashCalls' = [hashCalls EXCEPT ![c] = @ + 1]
    /\ UNCHANGED <<hasherVars, key, total_destinations, n, ret, loopIters>>

\* let mut final_shard = 0; let mut last_hash = hasher.hash_one(key);
HashKey(c) ==
    /\ pc[c] = "hash_key"
    /\ final_shard' = [final_shard EXCEPT ![c] = 0]
    /\ last_hash' = [last_hash EXCEPT ![c] = hashKey[key[c]]]
    /\ hashCalls' = [hashCalls EXCEPT ![c] = @ + 1]
    /\ pc' = [pc EXCEPT ![c] = "assert"]
    /\ UNCHANGED <<hasherVars, key, total_destinations, n, ret, loopIters>>

\* The check left out: every total_destinations enters the loop.
AssertSkipped(c) ==
    /\ pc[c] = "assert"
    /\ pc' = [pc EXCEPT ![c] = "loop"]
    /\ n' = [n EXCEPT ![c] = 1]
    /\ UNCHANGED <<hasherVars, key, total_destinations, final_shard, last_hash,
                   ret, hashCalls, loopIters>>

\* assert_ne!(total_destinations, 0, ...): panics, or enters the loop at n = 1.
AssertNonZero(c) ==
    /\ pc[c] = "assert"
    /\ \/ /\ total_destinations[c] = 0
          /\ pc' = [pc EXCEPT ![c] = "panicked"]
          /\ UNCHANGED n
       \/ /\ total_destinations[c] # 0
          /\ pc' = [pc EXCEPT ![c] = "loop"]
          /\ n' = [n EXCEPT ![c] = 1]
    /\ UNCHANGED <<hasherVars, key, total_destinations, final_shard, last_hash,
                   ret, hashCalls, loopIters>>

\* The loop body reading a last_hash shared by all invocations (that of the
\* lowest-numbered invocation) instead of its own local.
LoopStepShared(c) ==
    /\ pc[c] = "loop"
    /\ n[c] \in LoopRange(total_destinations[c])
    /\ LET shared == CHOOSE d \in Calls : \A e \in Calls : d <= e
           hash == hashU64[last_hash[shared]]
       IN  /\ final_shard' = [final_shard EXCEPT ![c] = NextShard(hash, n[c], @)]
           /\ last_hash' = [last_hash EXCEPT ![shared] = hash]
    /\ hashCalls' = [hashCalls EXCEPT ![c] = @ + 1]
    /\ loopIters' = [loopIters EXCEPT ![c] = @ + 1]
    /\ n' = [n EXCEPT ![c] = @ + 1]
    /\ UNCHANGED <<hasherVars, pc, key, total_destinations, ret>>

\* The loop body hashing the key's hash afresh on every step instead of the
\* previous step's output.
LoopStepRehashKey(c) ==
    /\ pc[c] = "loop"
    /\ n[c] \in LoopRange(total_destinations[c])
    /\ LET hash == hashU64[hashKey[key[c]]]
       IN  /\ final_shard' = [final_shard EXCEPT ![c] = NextShard(hash, n[c], @)]
           /\ last_hash' = [last_hash EXCEPT ![c] = hash]
    /\ hashCalls' = [hashCalls EXCEPT ![c] = @ + 1]
    /\ loopIters' = [loopIters EXCEPT ![c] = @ + 1]
    /\ n' = [n EXCEPT ![c] = @ + 1]
    /\ UNCHANGED <<hasherVars, pc, key, total_destinations, ret>>

\* One iteration of for n in 1..total_destinations { ... }.
LoopStep(c) ==
    /\ pc[c] = "loop"
    /\ n[c] \in LoopRange(total_destinations[c])
    /\ LET hash == hashU64[last_hash[c]]
       IN  /\ final_shard' = [final_shard EXCEPT ![c] = NextShard(hash, n[c], @)]
           /\ last_hash' = [last_hash EXCEPT ![c] = hash]
    /\ hashCalls' = [hashCalls EXCEPT ![c] = @ + 1]
    /\ loopIters' = [loopIters EXCEPT ![c] = @ + 1]
    /\ n' = [n EXCEPT ![c] = @ + 1]
    /\ UNCHANGED <<hasherVars, pc, key, total_destinations, ret>>

\* The range is exhausted: debug_assert!(final_shard < total_destinations);
\* final_shard.  The assertion's condition is stated as ResultInRange below.
Return(c) ==
    /\ pc[c] = "loop"
    /\ n[c] \notin LoopRange(total_destinations[c])
    /\ ret' = [ret EXCEPT ![c] = <<final_shard[c]>>]
    /\ pc' = [pc EXCEPT ![c] = "done"]
    /\ UNCHANGED <<hasherVars, key, total_destinations, final_shard, last_hash,
                   n, hashCalls, loopIters>>

Next ==
    \E c \in Calls :
        \/ \E k \in Keys, td \in 0..MaxN : Call(c, k, td)
        \/ HashKey(c)
        \/ AssertNonZero(c)
        \/ LoopStep(c)
        \/ Return(c)

Spec == Init /\ [][Next]_vars

\* One invocation on its own: the function applied once to inputs and a hasher
\* drawn from the bounded sets.
NextSingle ==
    LET c == CHOOSE d \in Calls : \A e \in Calls : d <= e
    IN  \/ \E k \in Keys, td \in 0..MaxN : Call(c, k, td)
        \/ HashKey(c)
        \/ AssertNonZero(c)
        \/ LoopStep(c)
        \/ Return(c)

SpecSingle == Init /\ [][NextSingle]_vars

\* ---------------------------------------------------------------- properties

Done(c) == pc[c] = "done"

Result(c) == ret[c][1]

\* The hash chain written out: h_0 = H(key), h_i = H(h_{i-1}).
RECURSIVE Chain(_, _)
Chain(k, i) == IF i = 0 THEN hashKey[k] ELSE hashU64[Chain(k, i - 1)]

\* The steps in [1, N-1] whose test h_i mod (i+1) = 0 succeeds.
Hits(k, N) == {i \in 1..(N - 1) : Chain(k, i) % (i + 1) = 0}

\* The largest such step, or 0 when there is none.
Reference(k, N) ==
    IF Hits(k, N) = {} THEN 0 ELSE CHOOSE i \in Hits(k, N) : \A j \in Hits(k, N) : j <= i

\* C1: for one key and one hasher, the result for n+1 destinations (n >= 1) is
\* the result for n destinations or the new index n.
MonotonicNoMove ==
    \A c, d \in Calls :
        (/\ Done(c) /\ Done(d)
         /\ key[c] = key[d]
         /\ total_destinations[c] >= 1
         /\ total_destinations[d] = total_destinations[c] + 1)
        => Result(d) \in {Result(c), total_destinations[c]}

\* Two finished invocations for n and n+1 destinations where the key moved to
\* the new shard n, away from a shard other than 0.
MonotonicNoMoveWitness ==
    \E c, d \in Calls :
        /\ Done(c) /\ Done(d)
        /\ key[c] = key[d]
        /\ total_destinations[d] = total_destinations[c] + 1
        /\ Result(c) >= 1
        /\ Result(d) = total_destinations[c]

\* C2: every returned index is in [0, N), and the condition of
\* debug_assert!(final_shard < total_destinations) holds where it is evaluated.
ResultInRange ==
    \A c \in Calls :
        /\ (pc[c] = "loop" /\ n[c] \notin LoopRange(total_destinations[c]))
               => final_shard[c] < total_destinations[c]
        /\ Done(c) => (0 <= Result(c) /\ Result(c) < total_destinations[c])

\* An invocation returned the last index N-1 of at least three destinations.
ResultInRangeWitness ==
    \E c \in Calls :
        /\ Done(c)
        /\ total_destinations[c] >= 3
        /\ Result(c) = total_destinations[c] - 1

\* C3: an invocation with total_destinations = 0 never enters the loop and never
\* returns; past the assertion it has panicked, and it produced no value.
ZeroDestinationsPanics ==
    \A c \in Calls :
        (pc[c] # "idle" /\ total_destinations[c] = 0)
        => (pc[c] \in {"hash_key", "assert", "panicked"} /\ ret[c] = << >>)

\* An invocation with total_destinations = 0 has panicked.
ZeroDestinationsPanicsWitness ==
    \E c \in Calls :
        pc[c] = "panicked" /\ total_destinations[c] = 0 /\ ret[c] = << >>

\* C4 as stated: when the invocation fails, the hash primitive has not been
\* invoked at all.
PanicsBeforeAnyHashing ==
    \A c \in Calls : pc[c] = "panicked" => hashCalls[c] = 0

\* C4 amended: when the invocation fails, the hash primitive has been invoked
\* exactly once, on the key, and no chained hash has been computed.
PanicsAfterHashingKeyOnly ==
    \A c \in Calls :
        pc[c] = "panicked"
        => /\ hashCalls[c] = 1
           /\ loopIters[c] = 0
           /\ last_hash[c] = hashKey[key[c]]

\* A failed invocation that has hashed its key.
PanicsAfterHashingKeyOnlyWitness ==
    \E c \in Calls : pc[c] = "panicked" /\ hashCalls[c] = 1

\* C5: with total_destinations = 1 the loop body never runs and the result is 0.
OneDestinationReturnsZero ==
    \A c \in Calls :
        total_destinations[c] = 1
        => (loopIters[c] = 0 /\ (Done(c) => Result(c) = 0))

\* An invocation with total_destinations = 1 returned.
OneDestinationReturnsZeroWitness ==
    \E c \in Calls : Done(c) /\ total_destinations[c] = 1 /\ ret[c] = <<0>>

\* C6: however the steps of the invocations interleave, each one ends as it
\* does when run alone on its (key, total_destinations, hasher), and equal
\* inputs give equal results.
InvocationsIndependent ==
    /\ \A c \in Calls :
           pc[c] \in {"done", "panicked"}
           => ret[c] = shard_with_hasher(key[c], total_destinations[c], hashKey, hashU64)
    /\ \A c, d \in Calls :
           (/\ Done(c) /\ Done(d)
            /\ key[c] = key[d]
            /\ total_destinations[c] = total_destinations[d])
           => ret[c] = ret[d]

\* Two invocations with different destination counts both returned a shard
\* other than 0.
InvocationsIndependentWitness ==
    \E c, d \in Calls :
        /\ c # d
        /\ Done(c) /\ Done(d)
        /\ total_destinations[c] # total_destinations[d]
        /\ Result(c) >= 1
        /\ Result(d) >= 1

\* C7: the result is the largest step n in [1, N-1] with h_n mod (n+1) = 0, or
\* 0; before step n the local last_hash is h_{n-1} whatever N is; and no step
\* n >= N is run.
ReferenceResult ==
    \A c \in Calls :
        /\ Done(c) => Result(c) = Reference(key[c], total_destinations[c])
        /\ pc[c] \in {"loop", "done"}
           => /\ last_hash[c] = Chain(key[c], n[c] - 1)
              /\ final_shard[c] = Reference(key[c], n[c])
              /\ loopIters[c] = n[c] - 1
              /\ n[c] <= total_destinations[c]

\* An invocation returned a shard that a later step did not overwrite.
ReferenceResultWitness ==
    \E c \in Calls :
        /\ Done(c)
        /\ Result(c) >= 1
        /\ Result(c) < total_destinations[c] - 1

\* C8 as stated: a finished invocation has invoked the hash primitive N-1 times
\* in total.
HashInvokedNMinusOneTimes ==
    \A c \in Calls : Done(c) => hashCalls[c] = total_destinations[c] - 1

\* C8 amended: a finished invocation has invoked the hash primitive N times in
\* total: once on the key and N-1 times on the previous hash output.
HashInvokedNTimes ==
    \A c \in Calls :
        Done(c)
        => /\ hashCalls[c] = total_destinations[c]
           /\ loopIters[c] = total_destinations[c] - 1

\* A finished invocation that ran the loop body at least twice.
HashInvokedNTimesWitness ==
    \E c \in Calls : Done(c) /\ loopIters[c] >= 2

\* C9: for the key and the destination count N >= 1 of every invocation made,
\* and every index j in [0, N), some hasher makes shard_with_hasher return j.
Coverage ==
    \A c \in Calls :
        (pc[c] # "idle" /\ total_destinations[c] >= 1)
        => \A j \in 0..(total_destinations[c] - 1) :
               \E hk \in [Keys -> HashVals], hu \in [HashVals -> HashVals] :
                   shard_with_hasher(key[c], total_destinations[c], hk, hu) = <<j>>

\* An invocation over at least three destinations kept the first index.
CoverageWitness ==
    \E c \in Calls :
        /\ Done(c)
        /\ total_destinations[c] >= 3
        /\ Result(c) = 0

\* C10: for one key and one hasher the result is non-decreasing in the
\* destination count, and a shard the key has left is never assigned again.
NonDecreasing ==
    /\ \A c, d \in Calls :
           (/\ Done(c) /\ Done(d)
            /\ key[c] = key[d]
            /\ total_destinations[c] <= total_destinations[d])
           => Result(c) <= Result(d)
    /\ \A c, d \in Calls :
           (/\ Done(c) /\ Done(d)
            /\ key[c] = key[d]
            /\ total_destinations[c] <= total_destinations[d]
            /\ Result(c) # Result(d))
           => \A later \in total_destinations[d]..MaxN :
                  shard_with_hasher(key[c], later, hashKey, hashU64) # ret[c]

\* Two finished invocations where the larger destination count gave a strictly
\* larger shard, the smaller one being past shard 0 already.
NonDecreasingWitness ==
    \E c, d \in Calls :
        /\ Done(c) /\ Done(d)
        /\ key[c] = key[d]
        /\ total_destinations[c] < total_destinations[d]
        /\ 1 <= Result(c)
        /\ Result(c) < Result(d)

====
